---- MODULE Spec2Model ----
(***************************************************************************)
(* Model of Automate_email/automate_email.py: the row processor (main)     *)
(* and the generation client (generate_email) with its bounded retry and   *)
(* exponential backoff.                                                    *)
(*                                                                         *)
(* Strings are sequences of chunks (each chunk a piece of text), so that   *)
(* str.strip, str.startswith and the f-strings are computed, not assumed.  *)
(* A Python value that may be None is a record [isNone, str].              *)
(* time.sleep and the external call are recorded in the log `events`.      *)
(***************************************************************************)
EXTENDS Integers, Sequences, FiniteSets, TLC

\* ---------------------------------------------------------------- bounds
MaxRows == 2

\* ------------------------------------------------------ program constants
max_retries_Two == 2
max_retries == 3
initial_retry_delay == 5
ThrottleTenths == 5

\* ------------------------------------------------------------ input sets
\* A cell of the 'Contact Name' column: "" (column missing, row.get default),
\* "NaN" (empty cell, read by pandas as float nan) or a name.
ContactNames == {"", "NaN", "Ann"}
Row == [company : {"Acme"}, contact : ContactNames]
RECURSIVE SeqsUpTo(_, _)
SeqsUpTo(S, n) ==
    IF n = 0 THEN {<<>>}
    ELSE LET shorter == SeqsUpTo(S, n - 1)
         IN  shorter \cup {Append(s, x) : s \in {t \in shorter : Len(t) = n - 1}, x \in S}
Inputs == SeqsUpTo(Row, MaxRows)
Limits == 0 .. MaxRows

\* Texts the external endpoint may return in message.content.
Whitespace == {" "}
Responses == { <<" ", "Error generating ", "drafts for Ann", " ">>,
               <<" ">>,
               <<" ", "Error generating ", "email", " is hard">> }
\* str(e) of an exception raised inside the try block.
Failures == { <<"timeout">>, <<"rate limit">> }

\* ------------------------------------------------------- Python helpers
None == [isNone |-> TRUE, str |-> <<>>]
Str(s) == [isNone |-> FALSE, str |-> s]

\* bool(v) for None or a str
Truthy(v) == ~v.isNone /\ v.str /= <<>>

RECURSIVE lstrip(_)
lstrip(s) == IF s /= <<>> /\ Head(s) \in Whitespace THEN lstrip(Tail(s)) ELSE s
RECURSIVE rstrip(_)
rstrip(s) ==
    IF s /= <<>> /\ s[Len(s)] \in Whitespace
    THEN rstrip(SubSeq(s, 1, Len(s) - 1)) ELSE s
strip(s) == rstrip(lstrip(s))

startswith(s, p) == Len(s) >= Len(p) /\ SubSeq(s, 1, Len(p)) = p

head_OffByOne(s, n) == SubSeq(s, 1, IF n + 1 < Len(s) THEN n + 1 ELSE Len(s))
head(s, n) == SubSeq(s, 1, IF n < Len(s) THEN n ELSE Len(s))

ErrorPrefix == <<"Error generating ", "email">>
ErrorMarker(e) == ErrorPrefix \o <<": ">> \o e
DryRunSample(name) == <<"[DRY RUN] Sample email for ", name>>

NoContactName_NoNaCheck(name) == name = ""
\* `not contact_name or pd.isna(contact_name)`
NoContactName(name) == name = "" \/ name = "NaN"

IsUsable_NoPrefixCheck(v) == Truthy(v)
\* `email_content and not email_content.startswith("Error generating email")`
IsUsable(v) == Truthy(v) /\ ~startswith(v.str, ErrorPrefix)

Tenths(seconds) == seconds * 10

\* Entries of the log `events`, tagged with the source line that acts.
CallEvent(r, succeeded, payload) ==
    [line |-> 76, row |-> r, tenths |-> 0, ok |-> succeeded, text |-> payload]
BackoffSleepEvent(r, t) ==
    [line |-> 89, row |-> r, tenths |-> t, ok |-> TRUE, text |-> <<>>]
AppendEvent(r) ==
    [line |-> 160, row |-> r, tenths |-> 0, ok |-> TRUE, text |-> <<>>]
ThrottleSleepEvent(r) ==
    [line |-> 168, row |-> r, tenths |-> ThrottleTenths, ok |-> TRUE, text |-> <<>>]
ToCsvEvent ==
    [line |-> 173, row |-> 0, tenths |-> 0, ok |-> TRUE, text |-> <<>>]

\* ----------------------------------------------------------------- state
VARIABLES
    entry,              \* which function is run: "main" or "generate_email"
    input_csv,          \* rows of the input file
    limit,              \* args.limit
    dry_run,            \* args.dry_run
    pc,                 \* position in the code
    df,                 \* the dataframe main iterates
    index,              \* 1-based position of the current row in df
    total_contacts,
    successful_emails,
    output_data,
    email_content,      \* main's email_content / generate_email's return value
    contact_name,       \* generate_email's contact_name argument
    attempt,
    retry_delay,
    output_csv,         \* the output file: whether written, and its rows
    printed,            \* console messages that matter to the summary
    events              \* log of external calls, sleeps, appends, file writes

vars == <<entry, input_csv, limit, dry_run, pc, df, index, total_contacts,
          successful_emails, output_data, email_content, contact_name,
          attempt, retry_delay, output_csv, printed, events>>

args == <<entry, input_csv, limit, dry_run>>
counters == <<total_contacts, successful_emails>>
retry == <<attempt, retry_delay>>

Init ==
    /\ entry \in {"main", "generate_email"}
    /\ IF entry = "main"
       THEN /\ input_csv \in Inputs
            /\ limit \in Limits
            /\ dry_run \in BOOLEAN
            /\ contact_name = ""
            /\ pc = "read_csv"
       ELSE /\ input_csv = <<>>
            /\ limit = 0
            /\ dry_run = FALSE
            /\ contact_name \in ContactNames
            /\ pc = "generate_email"
    /\ df = <<>>
    /\ index = 0
    /\ total_contacts = 0
    /\ successful_emails = 0
    /\ output_data = <<>>
    /\ email_content = None
    /\ attempt = 0
    /\ retry_delay = 0
    /\ output_csv = [written |-> FALSE, rows |-> <<>>]
    /\ printed = <<>>
    /\ events = <<>>

\* Where generate_email returns to.
ReturnPc == IF entry = "main" THEN "classify" ELSE "returned"

\* ------------------------------------------------------------------ main
\* pd.read_csv succeeds, or raises and main returns.
ReadCsv ==
    /\ pc = "read_csv"
    /\ \/ /\ df' = input_csv
          /\ pc' = "apply_limit"
          /\ UNCHANGED printed
       \/ /\ printed' = Append(printed, [msg |-> "read_error", a |-> 0, b |-> 0, c |-> 0])
          /\ pc' = "aborted"
          /\ UNCHANGED df
    /\ UNCHANGED <<args, index, counters, output_data, email_content,
                   contact_name, retry, output_csv, events>>

ApplyLimit ==
    /\ pc = "apply_limit"
    /\ output_data' = <<>>
    /\ total_contacts' = 0
    /\ successful_emails' = 0
    /\ df' = IF limit > 0 THEN head(df, limit) ELSE df
    /\ index' = 1
    /\ pc' = "loop"
    /\ UNCHANGED <<args, email_content, contact_name, retry, output_csv,
                   printed, events>>

\* `for index, row in df.iterrows()` is exhausted.
LoopExit ==
    /\ pc = "loop"
    /\ index > Len(df)
    /\ pc' = "save"
    /\ UNCHANGED <<args, df, index, counters, output_data, email_content,
                   contact_name, retry, output_csv, printed, events>>

\* `continue` on a row without a contact name.
SkipRow ==
    /\ pc = "loop"
    /\ index <= Len(df)
    /\ NoContactName(df[index].contact)
    /\ index' = index + 1
    /\ UNCHANGED <<args, df, pc, counters, output_data, email_content,
                   contact_name, retry, output_csv, printed, events>>

DryRunRow_CallsClient ==
    /\ pc = "loop"
    /\ index <= Len(df)
    /\ ~NoContactName(df[index].contact)
    /\ dry_run
    /\ total_contacts' = total_contacts + 1
    /\ contact_name' = df[index].contact
    /\ pc' = "generate_email"
    /\ UNCHANGED <<args, df, index, successful_emails, output_data,
                   email_content, retry, output_csv, printed, events>>

DryRunRow ==
    /\ pc = "loop"
    /\ index <= Len(df)
    /\ ~NoContactName(df[index].contact)
    /\ dry_run
    /\ total_contacts' = total_contacts + 1
    /\ email_content' = Str(DryRunSample(df[index].contact))
    /\ successful_emails' = successful_emails + 1
    /\ pc' = "classify"
    /\ UNCHANGED <<args, df, index, output_data, contact_name, retry,
                   output_csv, printed, events>>

CallGenerateEmail ==
    /\ pc = "loop"
    /\ index <= Len(df)
    /\ ~NoContactName(df[index].contact)
    /\ ~dry_run
    /\ total_contacts' = total_contacts + 1
    /\ contact_name' = df[index].contact
    /\ pc' = "generate_email"
    /\ UNCHANGED <<args, df, index, successful_emails, output_data,
                   email_content, retry, output_csv, printed, events>>

Classify_NoThrottle ==
    /\ pc = "classify"
    /\ IF IsUsable(email_content)
       THEN /\ successful_emails' = successful_emails + 1
            /\ output_data' = Append(output_data,
                   [company |-> df[index].company,
                    contact |-> df[index].contact,
                    content |-> email_content.str])
            /\ events' = Append(events, AppendEvent(index))
       ELSE UNCHANGED <<successful_emails, output_data, events>>
    /\ index' = index + 1
    /\ pc' = "loop"
    /\ UNCHANGED <<args, df, total_contacts, email_content, contact_name,
                   retry, output_csv, printed>>

Classify ==
    /\ pc = "classify"
    /\ IF IsUsable(email_content)
       THEN /\ successful_emails' = successful_emails + 1
            /\ output_data' = Append(output_data,
                   [company |-> df[index].company,
                    contact |-> df[index].contact,
                    content |-> email_content.str])
            /\ events' = IF dry_run
                         THEN Append(events, AppendEvent(index))
                         ELSE events \o <<AppendEvent(index),
                                          ThrottleSleepEvent(index)>>
       ELSE UNCHANGED <<successful_emails, output_data, events>>
    /\ index' = index + 1
    /\ pc' = "loop"
    /\ UNCHANGED <<args, df, total_contacts, email_content, contact_name,
                   retry, output_csv, printed>>

SaveOutput_AlwaysWrites ==
    /\ pc = "save"
    /\ output_csv' = [written |-> TRUE, rows |-> output_data]
    /\ events' = Append(events, ToCsvEvent)
    /\ printed' = Append(printed,
           [msg |-> "saved", a |-> Len(output_data), b |-> 0, c |-> 0])
    /\ pc' = "summary"
    /\ UNCHANGED <<args, df, index, counters, output_data, email_content,
                   contact_name, retry>>

SaveOutput ==
    /\ pc = "save"
    /\ IF output_data /= <<>>
       THEN /\ output_csv' = [written |-> TRUE, rows |-> output_data]
            /\ events' = Append(events, ToCsvEvent)
            /\ printed' = Append(printed,
                   [msg |-> "saved", a |-> Len(output_data), b |-> 0, c |-> 0])
       ELSE /\ printed' = Append(printed,
                   [msg |-> "no_emails", a |-> 0, b |-> 0, c |-> 0])
            /\ UNCHANGED <<output_csv, events>>
    /\ pc' = "summary"
    /\ UNCHANGED <<args, df, index, counters, output_data, email_content,
                   contact_name, retry>>

PrintSummary ==
    /\ pc = "summary"
    /\ printed' = Append(printed,
           [msg |-> "summary", a |-> total_contacts, b |-> successful_emails,
            c |-> total_contacts - successful_emails])
    /\ pc' = "done"
    /\ UNCHANGED <<args, df, index, counters, output_data, email_content,
                   contact_name, retry, output_csv, events>>

\* -------------------------------------------------------- generate_email
GenerateEmailEntry ==
    /\ pc = "generate_email"
    /\ IF NoContactName(contact_name)
       THEN /\ email_content' = None
            /\ pc' = ReturnPc
            /\ UNCHANGED retry
       ELSE /\ attempt' = 0
            /\ retry_delay' = initial_retry_delay
            /\ pc' = "attempt"
            /\ UNCHANGED email_content
    /\ UNCHANGED <<args, df, index, counters, output_data, contact_name,
                   output_csv, printed, events>>

\* The try body completes: the call returned and its content is stripped.
AttemptSucceeds ==
    /\ pc = "attempt"
    /\ \E text \in Responses :
          /\ email_content' = Str(strip(text))
          /\ events' = Append(events, CallEvent(index, TRUE, text))
    /\ pc' = ReturnPc
    /\ UNCHANGED <<args, df, index, counters, output_data, contact_name,
                   retry, output_csv, printed>>

AttemptFails_Raises ==
    /\ pc = "attempt"
    /\ \E e \in Failures :
          IF attempt < max_retries - 1
          THEN /\ events' = events \o <<CallEvent(index, FALSE, e),
                                        BackoffSleepEvent(index, Tenths(retry_delay))>>
               /\ retry_delay' = retry_delay * 2
               /\ attempt' = attempt + 1
               /\ UNCHANGED <<email_content, pc>>
          ELSE /\ events' = Append(events, CallEvent(index, FALSE, e))
               /\ pc' = "aborted"
               /\ UNCHANGED <<email_content, retry>>
    /\ UNCHANGED <<args, df, index, counters, output_data, contact_name,
                   output_csv, printed>>

AttemptFails_NoDoubling ==
    /\ pc = "attempt"
    /\ \E e \in Failures :
          IF attempt < max_retries - 1
          THEN /\ events' = events \o <<CallEvent(index, FALSE, e),
                                        BackoffSleepEvent(index, Tenths(retry_delay))>>
               /\ retry_delay' = retry_delay
               /\ attempt' = attempt + 1
               /\ UNCHANGED <<email_content, pc>>
          ELSE /\ events' = Append(events, CallEvent(index, FALSE, e))
               /\ email_content' = Str(ErrorMarker(e))
               /\ pc' = ReturnPc
               /\ UNCHANGED retry
    /\ UNCHANGED <<args, df, index, counters, output_data, contact_name,
                   output_csv, printed>>

\* The try body raises an Exception e.
AttemptFails ==
    /\ pc = "attempt"
    /\ \E e \in Failures :
          IF attempt < max_retries - 1
          THEN /\ events' = events \o <<CallEvent(index, FALSE, e),
                                        BackoffSleepEvent(index, Tenths(retry_delay))>>
               /\ retry_delay' = retry_delay * 2
               /\ attempt' = attempt + 1
               /\ UNCHANGED <<email_content, pc>>
          ELSE /\ events' = Append(events, CallEvent(index, FALSE, e))
               /\ email_content' = Str(ErrorMarker(e))
               /\ pc' = ReturnPc
               /\ UNCHANGED retry
    /\ UNCHANGED <<args, df, index, counters, output_data, contact_name,
                   output_csv, printed>>

Next ==
    \/ ReadCsv
    \/ ApplyLimit
    \/ LoopExit
    \/ SkipRow
    \/ DryRunRow
    \/ CallGenerateEmail
    \/ Classify
    \/ SaveOutput
    \/ PrintSummary
    \/ GenerateEmailEntry
    \/ AttemptSucceeds
    \/ AttemptFails

Spec == Init /\ [][Next]_vars

\* The interpreter runs the single thread to completion.
FairSpec == Spec /\ WF_vars(Next)

\* ------------------------------------------------- reading the event log
Min(a, b) == IF a < b THEN a ELSE b

IsCall(e) == e.line = 76
IsBackoff(e) == e.line = 89
IsAppend(e) == e.line = 160
IsThrottle(e) == e.line = 168
IsToCsv(e) == e.line = 173

Positions(P(_)) == {p \in 1 .. Len(events) : P(events[p])}
PositionsOf(P(_), r) == {p \in Positions(P) : events[p].row = r}

\* Calls and backoff sleeps of the generate_email invocation for row r
\* (row 0 is a direct invocation).
GenTrace(r) ==
    SelectSeq(events, LAMBDA e : e.row = r /\ (IsCall(e) \/ IsBackoff(e)))
CallsOf(r) == SelectSeq(events, LAMBDA e : e.row = r /\ IsCall(e))
AppendedRows == {events[p].row : p \in Positions(IsAppend)}

\* A contact name is present: neither the empty string nor a missing value.
HasName(row) == row.contact \notin {"", "NaN"}
NamedRows(rows) == {k \in 1 .. Len(rows) : HasName(rows[k])}

\* The rows main is to consider: the first N rows when N > 0, else all.
ConsideredCount ==
    IF limit > 0 THEN Min(limit, Len(input_csv)) ELSE Len(input_csv)
K == Cardinality({k \in 1 .. ConsideredCount : HasName(input_csv[k])})

\* The text begins with the reserved prefix "Error generating email".
HasErrorPrefix(t) ==
    Len(t) >= 2 /\ t[1] = "Error generating " /\ t[2] = "email"

InMain == entry = "main"
LimitApplied == InMain /\ pc \notin {"read_csv", "apply_limit", "aborted"}
Summary == printed[Len(printed)]
Returned == pc \in {"classify", "returned"} /\ ~dry_run

\* ------------------------------------------------------------------ C1
\* C1: at the end of every run of main, in live and in dry-run mode alike,
\* the summary's successful count is the number of rows of the output set,
\* its failed count is the number of named records without a row, the two
\* add up to the total-contacts count and both lie between 0 and it.
C1_SummaryCountsAddUp ==
    (InMain /\ pc = "done") =>
        /\ Summary.msg = "summary"
        /\ Summary.b = Len(output_data)
        /\ Summary.c = K - Len(output_data)
        /\ Summary.b + Summary.c = Summary.a
        /\ Summary.b \in 0 .. Summary.a
        /\ Summary.c \in 0 .. Summary.a

\* ------------------------------------------------------------------ C2
\* C2: in dry-run mode main never enters generate_email, so there is no
\* external call and no backoff or throttle sleep; every considered record
\* with a contact name gets the placeholder text, passes the success test
\* and yields exactly one row of the output set.
C2_DryRunMakesNoCalls ==
    (InMain /\ dry_run) =>
        /\ pc \notin {"generate_email", "attempt"}
        /\ Positions(IsCall) = {}
        /\ Positions(IsBackoff) = {}
        /\ Positions(IsThrottle) = {}
        /\ pc = "classify" =>
              /\ email_content.isNone = FALSE
              /\ email_content.str =
                     <<"[DRY RUN] Sample email for ", df[index].contact>>
        /\ \A r \in 1 .. Len(input_csv) :
              Cardinality(PositionsOf(IsAppend, r)) <= 1
        /\ pc = "done" =>
              /\ AppendedRows =
                     {k \in 1 .. ConsideredCount : HasName(input_csv[k])}
              /\ Len(output_data) = K
              /\ successful_emails >= K

C2_Witness ==
    /\ InMain /\ dry_run /\ pc = "done"
    /\ Len(input_csv) = 2 /\ limit = 0
    /\ Len(output_data) = 2

\* ------------------------------------------------------------------ C3
\* C3: the total-contacts count at the end of the run is K, the number of
\* considered records with a contact name; a record without one is never
\* counted, never appended to the output, never the subject of an external
\* call, and generate_email invoked without a contact name returns None
\* with no call at all.
C3_OnlyNamedRecordsCount ==
    /\ (InMain /\ pc = "done") => (total_contacts = K /\ Summary.a = K)
    /\ LimitApplied =>
          total_contacts =
              Cardinality({k \in NamedRows(df) :
                              k < index \/ (k = index /\ pc /= "loop")})
    /\ InMain =>
          \A p \in 1 .. Len(events) :
              \/ IsToCsv(events[p])
              \/ /\ events[p].row \in 1 .. Len(input_csv)
                 /\ HasName(input_csv[events[p].row])
    /\ \A k \in 1 .. Len(output_data) : HasName(output_data[k])
    /\ (entry = "generate_email" /\ contact_name \in {"", "NaN"}) =>
          /\ events = <<>>
          /\ pc \in {"generate_email", "returned"}
          /\ pc = "returned" => email_content = None

C3_Witness ==
    /\ InMain /\ ~dry_run /\ pc = "done"
    /\ Len(df) = 2
    /\ df[1].contact = "NaN"
    /\ HasName(df[2])
    /\ total_contacts = 1

\* ------------------------------------------------------------- C4, C5
Rows == 0 .. Len(input_csv)
BackoffTenths(r) ==
    LET sleeps == SelectSeq(events, LAMBDA e : e.row = r /\ IsBackoff(e))
    IN  [j \in 1 .. Len(sleeps) |-> sleeps[j].tenths]

\* The invocation for row r is over.
Finished(r) ==
    IF InMain THEN r < index \/ (r = index /\ pc /= "attempt")
    ELSE pc = "returned"

\* Calls must alternate with the sleeps: call, sleep, call, sleep, call.
Alternates(trace) ==
    \A j \in 1 .. Len(trace) :
        IF j % 2 = 1 THEN IsCall(trace[j]) ELSE IsBackoff(trace[j])

\* C4: an invocation whose external call fails f times (f in {0,1,2}) and
\* then succeeds makes exactly f+1 calls, sleeps exactly f times, between
\* the attempts, for 5 s and then 10 s, and returns the (stripped) text of
\* the successful call; no sleep precedes the first attempt and no call
\* follows the first success.
C4_RetryThenSuccess ==
    \A r \in Rows :
        LET calls == CallsOf(r)
            n == Len(calls)
        IN  /\ \A j \in 1 .. n - 1 : ~calls[j].ok
            /\ (n > 0 /\ calls[n].ok) =>
                  /\ n - 1 \in {0, 1, 2}
                  /\ BackoffTenths(r) = SubSeq(<<50, 100>>, 1, n - 1)
                  /\ Len(GenTrace(r)) = 2 * n - 1
                  /\ Alternates(GenTrace(r))
                  /\ r = index =>
                        /\ pc /= "attempt"
                        /\ Returned =>
                              email_content = Str(strip(calls[n].text))

C4_Witness ==
    /\ InMain /\ pc = "classify" /\ ~dry_run
    /\ Len(CallsOf(index)) = 3
    /\ CallsOf(index)[3].ok
    /\ BackoffTenths(index) = <<50, 100>>

\* C5: an invocation whose every external call fails makes exactly 3 calls
\* and never a 4th, sleeps 5 s and 10 s between them and not after the
\* third, and returns (not raises) the marker "Error generating email: "
\* followed by the description of the last failure; main counts the record
\* as failed and never appends it to the output.
C5_RetryExhaustion ==
    /\ \A r \in Rows :
          LET calls == CallsOf(r)
              n == Len(calls)
          IN  /\ n <= 3
              /\ (n > 0 /\ ~calls[n].ok /\ ~Finished(r)) =>
                    (n < 3 /\ pc = "attempt")
              /\ (n > 0 /\ ~calls[n].ok /\ Finished(r)) =>
                    /\ n = 3
                    /\ BackoffTenths(r) = <<50, 100>>
                    /\ Len(GenTrace(r)) = 5
                    /\ Alternates(GenTrace(r))
                    /\ r \notin AppendedRows
                    /\ r = index =>
                          /\ pc /= "attempt"
                          /\ Returned =>
                                /\ ~email_content.isNone
                                /\ HasErrorPrefix(email_content.str)
                                /\ email_content.str =
                                       <<"Error generating ", "email", ": ">>
                                           \o calls[3].text
    /\ (InMain /\ ~dry_run) =>
          successful_emails = Cardinality(AppendedRows)
    /\ (InMain /\ ~dry_run /\ pc = "done") =>
          /\ Summary.b = Cardinality(AppendedRows)
          /\ Summary.c = Cardinality(NamedRows(df) \ AppendedRows)

C5_Witness ==
    /\ InMain /\ ~dry_run /\ pc = "done"
    /\ \E r \in Rows :
          /\ Len(CallsOf(r)) = 3
          /\ ~CallsOf(r)[3].ok
          /\ CallsOf(r)[3].text /= CallsOf(r)[1].text
    /\ Summary.c = 1
    /\ Len(output_data) = 1

\* ------------------------------------------------------------------ C6
\* C6: with a row limit N > 0 main considers exactly the first
\* min(N, number of input rows) rows, truncating before the contact-name
\* filter (skipped rows use up the limit); with N = 0 it considers every
\* row; no row past the first N is counted, sent to the client or written.
C6_LimitTruncatesBeforeFilter ==
    LimitApplied =>
        LET n == IF limit > 0 THEN Min(limit, Len(input_csv))
                 ELSE Len(input_csv)
        IN  /\ Len(df) = n
            /\ \A k \in 1 .. n : df[k] = input_csv[k]
            /\ index <= n + 1
            /\ \A p \in 1 .. Len(events) :
                  IsToCsv(events[p]) \/ events[p].row \in 1 .. n
            /\ total_contacts <=
                  Cardinality({k \in 1 .. n : HasName(input_csv[k])})
            /\ pc = "done" =>
                  /\ total_contacts =
                         Cardinality({k \in 1 .. n : HasName(input_csv[k])})
                  /\ Len(output_data) <= n
                  /\ Len(output_csv.rows) <= n

C6_Witness ==
    /\ InMain /\ pc = "done"
    /\ limit = 1
    /\ Len(input_csv) = 2
    /\ ~HasName(input_csv[1])
    /\ HasName(input_csv[2])
    /\ total_contacts = 0
    /\ events = <<>>

\* ------------------------------------------------------------------ C7
UsableText(text) ==
    LET t == strip(text)
    IN  t /= <<>> /\ ~HasErrorPrefix(t)
LastCall(r) == CallsOf(r)[Len(CallsOf(r))]
ReturnedUsable(r) == LastCall(r).ok /\ UsableText(LastCall(r).text)

\* A throttle sleep for row r lies after r's calls and before any later
\* row's call.
ThrottledAfter(r) ==
    \E t \in PositionsOf(IsThrottle, r) :
        /\ events[t].tenths = 5
        /\ \A c \in PositionsOf(IsCall, r) : c < t
        /\ \A c \in Positions(IsCall) : events[c].row > r => t < c

\* C7: in live mode main sleeps the throttle delay after every
\* generate_email invocation for a valid record, whether it returned usable
\* text or ended in the error marker, before the next record's first call.
C7_ThrottleAfterEveryInvocation ==
    (InMain /\ ~dry_run) =>
        \A r \in 1 .. Len(input_csv) :
            (r < index /\ CallsOf(r) /= <<>>) => ThrottledAfter(r)

\* C7 (amended): in live mode main sleeps the throttle delay, once, after
\* every generate_email invocation that returned usable text, before the
\* next record's first call; after an invocation that ended in the error
\* marker or returned unusable text there is no throttle sleep.
C7_ThrottleAfterUsableText ==
    (InMain /\ ~dry_run) =>
        \A r \in 1 .. Len(input_csv) :
            (r < index /\ CallsOf(r) /= <<>>) =>
                IF ReturnedUsable(r)
                THEN /\ ThrottledAfter(r)
                     /\ Cardinality(PositionsOf(IsThrottle, r)) = 1
                ELSE PositionsOf(IsThrottle, r) = {}

C7_Witness ==
    /\ InMain /\ ~dry_run /\ pc = "done"
    /\ Len(df) = 2
    /\ CallsOf(1) /= <<>>
    /\ ReturnedUsable(1)
    /\ ThrottledAfter(1)
    /\ Len(CallsOf(2)) = 3
    /\ ~LastCall(2).ok

\* ------------------------------------------------------------------ C8
C8_Safety ==
    /\ \A p, q \in Positions(IsCall) :
          p < q => events[p].row <= events[q].row
    /\ \A r \in Rows :
          \A p, q \in PositionsOf(IsCall, r) :
              \A m \in p .. q : events[m].row = r
    /\ Cardinality(Positions(IsCall)) <= 3 * total_contacts + (IF InMain THEN 0 ELSE 3)
    /\ InMain => Cardinality(Positions(IsCall)) <= 3 * K
    /\ (InMain /\ pc = "done") =>
          /\ index = Len(df) + 1
          /\ Summary.msg = "summary"
          /\ \A r \in NamedRows(df) :
                r \in AppendedRows \/ (~dry_run /\ CallsOf(r) /= <<>>)

\* C8: a generation failure never aborts the run: whatever the external
\* calls do, records are resolved one at a time in input order, at most 3
\* calls are made per valid record, every valid record ends up resolved,
\* and the run, once the input is read, ends by printing the summary.
C8_FailuresNeverAbort ==
    /\ []C8_Safety
    /\ (InMain /\ pc = "apply_limit") ~> (pc = "done")

C8_Witness ==
    /\ InMain /\ ~dry_run /\ pc = "done"
    /\ Len(df) = 2
    /\ Len(CallsOf(1)) = 3
    /\ ~LastCall(1).ok
    /\ CallsOf(2) /= <<>>
    /\ 2 \in AppendedRows

\* ------------------------------------------------------------------ C9
IsPrinted(m) == \E p \in 1 .. Len(printed) : printed[p].msg = m
AppendOrder ==
    LET appends == SelectSeq(events, IsAppend)
    IN  [k \in 1 .. Len(appends) |-> appends[k].row]

C9_Inv ==
    /\ Len(output_data) = Len(AppendOrder)
    /\ \A k \in 1 .. Len(output_data) :
          /\ output_data[k].company = input_csv[AppendOrder[k]].company
          /\ output_data[k].contact = input_csv[AppendOrder[k]].contact
          /\ output_data[k].content /= <<>>
          /\ k > 1 => AppendOrder[k - 1] < AppendOrder[k]
    /\ Cardinality(Positions(IsToCsv)) <= 1
    /\ output_csv.written <=> Positions(IsToCsv) /= {}
    /\ output_csv.written <=> IsPrinted("saved")
    /\ output_csv.written =>
          /\ pc \in {"summary", "done"}
          /\ index = Len(df) + 1
          /\ output_csv.rows = output_data
          /\ output_data /= <<>>
    /\ ~output_csv.written => output_csv.rows = <<>>
    /\ (pc \in {"summary", "done"} /\ output_data = <<>>) =>
          (~output_csv.written /\ IsPrinted("no_emails"))
    /\ IsPrinted("no_emails") =>
          (output_data = <<>> /\ pc \in {"summary", "done"})

C9_Step ==
    /\ Len(output_data') >= Len(output_data)
    /\ SubSeq(output_data', 1, Len(output_data)) = output_data
    /\ output_csv.written => output_csv' = output_csv

\* C9: the result list only grows (rows are appended, never removed or
\* changed) and holds the successful records in input order; the output
\* file is written at most once, after the last record, with one row per
\* successful record; with zero successes no file is written and the
\* no-emails message is printed instead.
C9_ResultsGrowWrittenOnce ==
    /\ []C9_Inv
    /\ [][C9_Step]_vars

C9_Witness ==
    /\ InMain /\ ~dry_run /\ pc = "done"
    /\ output_csv.written
    /\ Len(output_csv.rows) = 2
    /\ ~IsPrinted("no_emails")

\* ----------------------------------------------------------------- C10
C10_Inv ==
    (InMain /\ ~dry_run) =>
        /\ \A r \in 1 .. Len(input_csv) :
              LET calls == CallsOf(r)
              IN  /\ (calls /= <<>> /\ calls[1].ok) =>
                        /\ Len(calls) = 1
                        /\ BackoffTenths(r) = <<>>
                        /\ r = index =>
                              /\ pc /= "attempt"
                              /\ pc = "classify" =>
                                    email_content = Str(strip(calls[1].text))
                  /\ (calls /= <<>> /\ r < index) =>
                        (r \in AppendedRows <=> ReturnedUsable(r))
        /\ successful_emails = Cardinality(AppendedRows)
        /\ pc = "done" =>
              /\ Summary.b = Cardinality({r \in NamedRows(df) : ReturnedUsable(r)})
              /\ Summary.c = Cardinality({r \in NamedRows(df) : ~ReturnedUsable(r)})

C10_Step ==
    (InMain /\ pc = "classify") =>
        LET usable == /\ ~email_content.isNone
                      /\ email_content.str /= <<>>
                      /\ ~HasErrorPrefix(email_content.str)
            d == IF usable THEN 1 ELSE 0
        IN  /\ successful_emails' = successful_emails + d
            /\ Len(output_data') = Len(output_data) + d

\* C10: a result counts as successful iff it is non-empty and does not
\* start with "Error generating email", judged on the returned text alone:
\* a call that succeeds with text that is empty after trimming, or that
\* starts with the prefix, is returned after that single call, with no
\* retry and no backoff sleep, and main counts the record as failed and
\* leaves it out of the output, as it does a record whose 3 attempts failed.
C10_UnusableTextCountsAsFailure ==
    /\ []C10_Inv
    /\ [][C10_Step]_vars

C10_Witness ==
    /\ InMain /\ ~dry_run /\ pc = "done"
    /\ Len(df) = 2
    /\ Len(CallsOf(1)) = 1 /\ LastCall(1).ok /\ strip(LastCall(1).text) = <<>>
    /\ Len(CallsOf(2)) = 1 /\ LastCall(2).ok
    /\ HasErrorPrefix(strip(LastCall(2).text))
    /\ output_data = <<>>
    /\ Summary.c = 2

====
